---- MODULE Spec2Model ----
(***************************************************************************)
(* Subscription scheduling and persistence core of the daily_weather       *)
(* plugin (src/main.py, class WeatherPlugin): the in-memory store          *)
(* subscribe_data, the ledger file astrbot-subscribe.json, the scheduler's *)
(* jobs, and the handlers that change them.                                *)
(*                                                                         *)
(* Time is in seconds, counted from half a minute before a full minute; a *)
(* stored "datetime" has minute resolution, so the one-shot entries of the *)
(* model are due at 30, 90, ...                                            *)
(***************************************************************************)
EXTENDS Integers, Sequences, FiniteSets, TLC

VARIABLES
    phase,           \* "new" | "running" | "failed" | "down": life of the plugin object
    now,             \* wall clock, datetime.datetime.now(self.timezone)
    since,           \* the clock when the current phase began (__init__ or terminate ran)
    disk,            \* the ledger file astrbot-subscribe.json
    subscribe_data,  \* self.subscribe_data: group -> list of subscriptions
    jobs,            \* the jobs of self.scheduler
    uuid,            \* the next value uuid.uuid4() returns
    fired,           \* per one-shot job id, the number of runs of _subscribe_callback
    last,            \* the last operation, its inputs and what it answered
    scheduler_running, \* self.scheduler is started and not shut down
    suspended,       \* the subscribe_rm handlers parked at the yield of their except branch
    removed          \* the ids whose subscribe_rm has completed (history)

vars == <<phase, now, since, disk, subscribe_data, jobs, uuid, fired, last,
          scheduler_running, suspended, removed>>

----------------------------------------------------------------------------
(* Bounds *)

MaxTime == 120      \* the clock stops here
MaxUuid == 5        \* uuid4 values FirstUuid..MaxUuid are available to the program
MaxLen == 3         \* no group's list grows beyond this
MaxFired == 2       \* runs counted per one-shot job

ClockSteps == {30}
Groups == {"g1", "g2"}
GroupOrder == <<"g1", "g2">>
Ids == 1..MaxUuid

----------------------------------------------------------------------------
(* Recurrence expressions: strings over a field character and the space *)

Cron5 == <<"a", " ", "a", " ", "a", " ", "a", " ", "a">>
Cron4 == <<"a", " ", "a", " ", "a", " ", "a">>
Cron6 == <<"a", " ", "a", " ", "a", " ", "a", " ", "a", " ", "a">>

CronInputs == {Cron5, Cron4, Cron6}

\* str.split(" "): a cut at every single space, empty pieces kept
RECURSIVE split(_, _, _)
split(s, cur, acc) ==
    IF s = <<>> THEN Append(acc, cur)
    ELSE IF Head(s) = " " THEN split(Tail(s), <<>>, Append(acc, cur))
    ELSE split(Tail(s), Append(cur, Head(s)), acc)

NoFields == [minute |-> <<>>, hour |-> <<>>, day |-> <<>>, month |-> <<>>,
             day_of_week |-> <<>>]

\* fields[0] .. fields[4]; fields[4] raises IndexError on a shorter list
_parse_cron_expr_skip_first(cron_expr) ==
    LET fields == split(cron_expr, <<>>, <<>>) IN
    IF Len(fields) < 6 THEN [error |-> "IndexError", fields |-> NoFields]
    ELSE [error |-> "none",
          fields |-> [minute |-> fields[2], hour |-> fields[3], day |-> fields[4],
                      month |-> fields[5], day_of_week |-> fields[6]]]

_parse_cron_expr(cron_expr) ==
    LET fields == split(cron_expr, <<>>, <<>>) IN
    IF Len(fields) < 5 THEN [error |-> "IndexError", fields |-> NoFields]
    ELSE [error |-> "none",
          fields |-> [minute |-> fields[1], hour |-> fields[2], day |-> fields[3],
                      month |-> fields[4], day_of_week |-> fields[5]]]

\* the cron trigger built by scheduler.add_job compiles each field and
\* raises ValueError on a field with no expression in it
CronTriggerError(f) ==
    IF \E k \in DOMAIN f : f[k] = <<>> THEN "ValueError" ELSE "none"

\* the error, if any, of add_job(..., "cron", **self._parse_cron_expr(expr))
CronJobError(cron_expr) ==
    LET p == _parse_cron_expr(cron_expr) IN
    IF p.error # "none" THEN p.error ELSE CronTriggerError(p.fields)

----------------------------------------------------------------------------
(* The ledger file and its JSON form *)

EmptyStore == [g \in {} |-> <<>>]

Absent == [state |-> "absent", members |-> <<>>]
Corrupt == [state |-> "corrupt", members |-> <<>>]
Json(members) == [state |-> "json", members |-> members]

\* json.load of an object: its members in file order into a dict
RECURSIVE json_load(_)
json_load(members) ==
    IF members = <<>> THEN EmptyStore
    ELSE LET m == members[Len(members)]
             rest == json_load(SubSeq(members, 1, Len(members) - 1))
         IN [g \in DOMAIN rest \cup {m.key} |-> IF g = m.key THEN m.value ELSE rest[g]]

\* json.dump of the dict: one member per key
RECURSIVE json_dump_keys(_, _)
json_dump_keys(data, keys) ==
    IF keys = <<>> THEN <<>>
    ELSE IF Head(keys) \in DOMAIN data
         THEN <<[key |-> Head(keys), value |-> data[Head(keys)]]>>
              \o json_dump_keys(data, Tail(keys))
         ELSE json_dump_keys(data, Tail(keys))

json_dump(data) == json_dump_keys(data, GroupOrder)

_save_data_drop_empty(data) ==
    Json(json_dump([g \in {h \in DOMAIN data : data[h] # <<>>} |-> data[g]]))

\* _save_data: the whole dict rewritten into the file
_save_data(data) == Json(json_dump(data))

----------------------------------------------------------------------------
(* Subscriptions and the ledgers the plugin may find at its first start *)

Cities == {"hz"}

\* the dict weather_subscribe builds
NewSubscription(id, city, cron_expr) ==
    [text |-> "weather", cron |-> cron_expr, cron_h |-> "label", id |-> id,
     city |-> city]

\* a one-shot entry of the ledger, with and without an id
OneShot(id, t) == [text |-> "weather", datetime |-> t, id |-> id, city |-> "hz"]
OneShotNoId(t) == [text |-> "weather", datetime |-> t, city |-> "hz"]

InitialLedgers ==
    { Absent,
      Corrupt,
      Json(<<>>),
      Json(<<[key |-> "g1", value |-> <<OneShot(1, 30), NewSubscription(2, "hz", Cron5)>>],
             [key |-> "g2", value |-> <<NewSubscription(4, "hz", Cron5)>>]>>),
      Json(<<[key |-> "g1", value |-> <<OneShotNoId(30)>>],
             [key |-> "g2", value |-> <<OneShot(1, 90)>>]>>) }

FirstUuid == 5

uuid4_counter(n) == n - FirstUuid + 1

\* str(uuid.uuid4()): the n-th value drawn is one never seen before
uuid4(n) == n

----------------------------------------------------------------------------
(* Expiry and the upcoming view *)

check_is_outdated_never(subscribe, t) == FALSE

check_is_outdated_grace(subscribe, t) ==
    IF "datetime" \in DOMAIN subscribe THEN subscribe.datetime + 60 < t ELSE FALSE

\* check_is_outdated: subscribe_time < now, for a one-shot entry only
check_is_outdated(subscribe, t) ==
    IF "datetime" \in DOMAIN subscribe THEN subscribe.datetime < t ELSE FALSE

IsUpcoming(s, t) == "datetime" \notin DOMAIN s \/ s.datetime >= t

get_upcoming_subscribe_all(data, g, t) ==
    IF g \in DOMAIN data THEN data[g] ELSE <<>>

\* get_upcoming_subscribe: the group's entries that are recurring or not yet due
get_upcoming_subscribe(data, g, t) ==
    LET subscribe == IF g \in DOMAIN data THEN data[g] ELSE <<>> IN
    IF subscribe = <<>> THEN <<>>
    ELSE SelectSeq(subscribe, LAMBDA s : IsUpcoming(s, t))

----------------------------------------------------------------------------
(* The scheduler's jobs *)

DateJob(id, g, t) == [id |-> id, trigger |-> "date", run_date |-> t, group |-> g]
CronJob(id, g) == [id |-> id, trigger |-> "cron", run_date |-> 0, group |-> g]

MisfireGraceTime == 60

RECURSIVE _init_scheduler_prune(_, _, _, _)
_init_scheduler_prune(st, keys, i, t) ==
    IF keys = <<>> \/ st.error # "none" THEN st
    ELSE LET group == Head(keys) IN
         IF group \notin DOMAIN st.data \/ i > Len(st.data[group])
         THEN _init_scheduler_prune(st, Tail(keys), 1, t)
         ELSE LET s0 == st.data[group][i]
                  hasId == "id" \in DOMAIN s0
                  id_ == IF hasId THEN s0.id ELSE uuid4(st.uuid)
                  subscribe == IF hasId THEN s0 ELSE s0 @@ [id |-> id_]
                  st1 == [st EXCEPT !.data[group][i] = subscribe,
                                    !.uuid = IF hasId THEN @ ELSE @ + 1]
              IN IF "datetime" \in DOMAIN subscribe
                 THEN IF check_is_outdated(subscribe, t)
                      THEN _init_scheduler_prune(
                              [st1 EXCEPT !.data[group] =
                                  SubSeq(@, 1, i - 1) \o SubSeq(@, i + 1, Len(@))],
                              keys, i, t)
                      ELSE _init_scheduler_prune(
                              [st1 EXCEPT !.jobs = @ \cup {DateJob(id_, group, subscribe.datetime)}],
                              keys, i + 1, t)
                 ELSE IF "cron" \in DOMAIN subscribe
                 THEN LET err == CronJobError(subscribe.cron) IN
                      IF err # "none" THEN [st1 EXCEPT !.error = err]
                      ELSE _init_scheduler_prune(
                              [st1 EXCEPT !.jobs = @ \cup {CronJob(id_, group)}],
                              keys, i + 1, t)
                 ELSE _init_scheduler_prune(st1, keys, i + 1, t)

\* _init_scheduler: every entry of every group in turn gets an id if it has
\* none, and a job unless it is an outdated one-shot; an exception of
\* add_job ends the loop where it is raised.
\* st = [data, jobs, uuid, error]
RECURSIVE _init_scheduler(_, _, _, _)
_init_scheduler(st, keys, i, t) ==
    IF keys = <<>> \/ st.error # "none" THEN st
    ELSE LET group == Head(keys) IN
         IF group \notin DOMAIN st.data \/ i > Len(st.data[group])
         THEN _init_scheduler(st, Tail(keys), 1, t)
         ELSE LET s0 == st.data[group][i]
                  hasId == "id" \in DOMAIN s0
                  id_ == IF hasId THEN s0.id ELSE uuid4(st.uuid)
                  subscribe == IF hasId THEN s0 ELSE s0 @@ [id |-> id_]
                  st1 == [st EXCEPT !.data[group][i] = subscribe,
                                    !.uuid = IF hasId THEN @ ELSE @ + 1]
              IN IF "datetime" \in DOMAIN subscribe
                 THEN IF check_is_outdated(subscribe, t)
                      THEN _init_scheduler(st1, keys, i + 1, t)
                      ELSE _init_scheduler(
                              [st1 EXCEPT !.jobs = @ \cup {DateJob(id_, group, subscribe.datetime)}],
                              keys, i + 1, t)
                 ELSE IF "cron" \in DOMAIN subscribe
                 THEN LET err == CronJobError(subscribe.cron) IN
                      IF err # "none" THEN [st1 EXCEPT !.error = err]
                      ELSE _init_scheduler(
                              [st1 EXCEPT !.jobs = @ \cup {CronJob(id_, group)}],
                              keys, i + 1, t)
                 ELSE _init_scheduler(st1, keys, i + 1, t)

\* the ids an _init_scheduler run over data may draw from uuid4
MissingIds(data) ==
    LET n(g) == Cardinality({i \in 1..Len(data[g]) : "id" \notin DOMAIN data[g][i]})
        RECURSIVE sum(_)
        sum(keys) == IF keys = <<>> THEN 0
                     ELSE (IF Head(keys) \in DOMAIN data THEN n(Head(keys)) ELSE 0)
                          + sum(Tail(keys))
    IN sum(GroupOrder)

----------------------------------------------------------------------------
(* What the handlers answer *)

NoOp == [op |-> "none", group |-> "g1", index |-> 0, id |-> 0, cron |-> <<>>,
         error |-> "none", resp |-> <<>>]

Answer(op, g, index, id, cron, error, resp) ==
    [op |-> op, group |-> g, index |-> index, id |-> id, cron |-> cron,
     error |-> error, resp |-> resp]

----------------------------------------------------------------------------
(* The state after the process is installed and before the plugin is built *)

Init ==
    /\ phase = "new"
    /\ now = 0
    /\ since = 0
    /\ disk \in InitialLedgers
    /\ subscribe_data = EmptyStore
    /\ jobs = {}
    /\ uuid = FirstUuid
    /\ fired = [i \in Ids |-> 0]
    /\ last = NoOp
    /\ scheduler_running = FALSE
    /\ suspended = {}
    /\ removed = {}

----------------------------------------------------------------------------
(* The clock *)

\* sending the message a parked handler waits for takes less than a clock step
Tick ==
    \E d \in ClockSteps :
        /\ now + d <= MaxTime
        /\ suspended = {}
        /\ now' = now + d
        /\ last' = [NoOp EXCEPT !.op = "tick"]
        /\ UNCHANGED <<phase, since, disk, subscribe_data, jobs, uuid, fired,
                       scheduler_running, suspended, removed>>

----------------------------------------------------------------------------
(* __init__: the file is created if absent, loaded, _init_scheduler runs    *)
(* and the scheduler is started. A restart after terminate takes time.     *)

StartCorrupt_reset ==
    /\ phase \in {"new", "failed", "down"}
    /\ phase = "down" => now > since
    /\ disk.state = "corrupt"
    /\ phase' = "running"
    /\ since' = now
    /\ subscribe_data' = EmptyStore
    /\ disk' = Json(<<>>)
    /\ jobs' = {}
    /\ scheduler_running' = TRUE
    /\ suspended' = {}
    /\ last' = Answer("init", "g1", 0, 0, <<>>, "none", <<>>)
    /\ UNCHANGED <<now, uuid, fired, removed>>

\* json.load raises on a file that is not JSON; nothing after it runs
StartCorrupt ==
    /\ phase \in {"new", "failed", "down"}
    /\ phase = "down" => now > since
    /\ disk.state = "corrupt"
    /\ phase' = "failed"
    /\ since' = now
    /\ subscribe_data' = EmptyStore
    /\ jobs' = {}
    /\ scheduler_running' = FALSE
    /\ suspended' = {}
    /\ last' = Answer("init", "g1", 0, 0, <<>>, "JSONDecodeError", <<>>)
    /\ UNCHANGED <<now, disk, uuid, fired, removed>>

Start ==
    /\ phase \in {"new", "failed", "down"}
    /\ phase = "down" => now > since
    /\ disk.state # "corrupt"
    /\ LET file == IF disk.state = "absent" THEN Json(<<>>) ELSE disk
           loaded == json_load(file.members)
           st == _init_scheduler([data |-> loaded, jobs |-> {}, uuid |-> uuid,
                                  error |-> "none"], GroupOrder, 1, now)
       IN /\ uuid + MissingIds(loaded) <= MaxUuid + 1
          /\ disk' = file
          /\ subscribe_data' = st.data
          /\ jobs' = st.jobs
          /\ uuid' = st.uuid
          /\ phase' = IF st.error = "none" THEN "running" ELSE "failed"
          /\ scheduler_running' = (st.error = "none")
          /\ last' = Answer("init", "g1", 0, 0, <<>>, st.error, <<>>)
    /\ since' = now
    /\ suspended' = {}
    /\ UNCHANGED <<now, fired, removed>>

----------------------------------------------------------------------------
(* The scheduler runs a due job: _subscribe_callback                        *)

DeliveryOutcomes == {"none", "NoData", "SendError"}

JobsAfterRun_drop_on_failure(js, j, outcome) ==
    IF j.trigger = "date" \/ outcome # "none" THEN js \ {j} ELSE js

\* _subscribe_callback catches what the delivery raises and touches no job;
\* the scheduler drops a date job once it has handled it and keeps a cron job
JobsAfterRun(js, j, outcome) ==
    IF j.trigger = "date" THEN js \ {j} ELSE js

\* a date job is run once its run_date is reached, unless it is later than
\* misfire_grace_time, and is removed from the scheduler either way
FireDate ==
    \E j \in jobs, outcome \in DeliveryOutcomes :
        /\ scheduler_running
        /\ j.trigger = "date"
        /\ j.run_date <= now
        /\ fired[j.id] < MaxFired
        /\ jobs' = JobsAfterRun(jobs, j, outcome)
        /\ IF now - j.run_date <= MisfireGraceTime
           THEN /\ fired' = [fired EXCEPT ![j.id] = @ + 1]
                /\ last' = [NoOp EXCEPT !.op = "fire", !.error = outcome]
           ELSE /\ fired' = fired
                /\ last' = [NoOp EXCEPT !.op = "missed"]
        /\ UNCHANGED <<phase, now, since, disk, subscribe_data, uuid,
                       scheduler_running, suspended, removed>>

\* a cron job is run whenever the calendar engine finds it due, and stays
FireCron ==
    \E j \in jobs, outcome \in DeliveryOutcomes :
        /\ scheduler_running
        /\ j.trigger = "cron"
        /\ jobs' = JobsAfterRun(jobs, j, outcome)
        /\ last' = [NoOp EXCEPT !.op = "fire", !.error = outcome]
        /\ UNCHANGED <<phase, now, since, disk, subscribe_data, uuid, fired,
                       scheduler_running, suspended, removed>>

----------------------------------------------------------------------------
(* weather_subscribe *)

Entries(data, g) == IF g \in DOMAIN data THEN data[g] ELSE <<>>

StorePrepend(data, g, d) ==
    [h \in DOMAIN data \cup {g} |-> IF h = g THEN <<d>> \o Entries(data, g) ELSE data[h]]

\* self.subscribe_data[g] is created if missing, then d is appended
StoreAppend(data, g, d) ==
    [h \in DOMAIN data \cup {g} |-> IF h = g THEN Append(Entries(data, g), d) ELSE data[h]]

weather_subscribe ==
    \E g \in Groups, city \in Cities, cron_expression \in CronInputs :
        /\ phase = "running"
        /\ uuid <= MaxUuid
        /\ Len(Entries(subscribe_data, g)) < MaxLen
        /\ LET d == NewSubscription(uuid4(uuid), city, cron_expression)
               data1 == StoreAppend(subscribe_data, g, d)
               err == CronJobError(cron_expression)
           IN /\ uuid' = uuid + 1
              /\ subscribe_data' = data1
              /\ IF err = "none"
                 THEN /\ jobs' = jobs \cup {CronJob(d.id, g)}
                      /\ disk' = _save_data(data1)
                      /\ last' = Answer("sub", g, 0, d.id, cron_expression, "none",
                                        <<"SubscribeOk">>)
                 ELSE /\ jobs' = jobs
                      /\ disk' = disk
                      /\ last' = Answer("sub", g, 0, d.id, cron_expression, err, <<>>)
        /\ UNCHANGED <<phase, now, since, fired, scheduler_running, suspended, removed>>

----------------------------------------------------------------------------
(* subscribe_rm *)

GetId(s) == IF "id" \in DOMAIN s THEN s.id ELSE 0

RemoveAt(list, i) == SubSeq(list, 1, i - 1) \o SubSeq(list, i + 1, Len(list))

RECURSIVE rm_loop_enumerate_from_one(_, _, _)
rm_loop_enumerate_from_one(users_subscribe, i, job_id) ==
    IF i > Len(users_subscribe) THEN users_subscribe
    ELSE IF GetId(users_subscribe[i]) = job_id
         THEN rm_loop_enumerate_from_one(
                  IF i < Len(users_subscribe) THEN RemoveAt(users_subscribe, i + 1)
                  ELSE users_subscribe, i + 1, job_id)
         ELSE rm_loop_enumerate_from_one(users_subscribe, i + 1, job_id)

\* for i, s in enumerate(users_subscribe): if s.get("id") == job_id: pop(i)
RECURSIVE rm_loop(_, _, _)
rm_loop(users_subscribe, i, job_id) ==
    IF i > Len(users_subscribe) THEN users_subscribe
    ELSE IF GetId(users_subscribe[i]) = job_id
         THEN rm_loop(RemoveAt(users_subscribe, i), i + 1, job_id)
         ELSE rm_loop(users_subscribe, i + 1, job_id)

RmAnswer_one_message(upcoming, index) ==
    IF upcoming = <<>> \/ index < 1 \/ index > Len(upcoming) THEN "EmptyStore"
    ELSE "ok"

RmAnswer_range_first(upcoming, index) ==
    IF index < 1 \/ index > Len(upcoming) THEN "IndexOutOfRange"
    ELSE IF upcoming = <<>> THEN "EmptyStore"
    ELSE "ok"

\* the branch subscribe_rm takes
RmAnswer(upcoming, index) ==
    IF upcoming = <<>> THEN "EmptyStore"
    ELSE IF index < 1 \/ index > Len(upcoming) THEN "IndexOutOfRange"
    ELSE "ok"

StoreRemove_by_position(data, g, upcoming, index) ==
    [data EXCEPT ![g] = RemoveAt(@, index)]

\* the entry shown at index is popped from the group's stored list by its id
StoreRemove(data, g, upcoming, index) ==
    [data EXCEPT ![g] = rm_loop(@, 1, GetId(upcoming[index]))]

JobsAfterRemove_forgotten(js, job_id) == js

\* self.scheduler.remove_job(job_id)
JobsAfterRemove(js, job_id) == {j \in js : j.id # job_id}

RmMessages_silent(armed) == <<"Removed">>

\* everything a subscribe_rm that removed an entry yields, in order
RmMessages(armed) ==
    IF armed THEN <<"Removed">> ELSE <<"RemoveJobFailed", "Removed">>

RmResumeLedger_return(data, file) == file

\* await self._save_data() after the yield of the except branch
RmResumeLedger(data, file) == _save_data(data)

\* subscribe_rm up to its first yield. When remove_job raises, that yield is
\* the one of the except branch: the entry is out of the store, the file is
\* not yet rewritten, and the handler is parked until the message is sent.
subscribe_rm ==
    \E g \in Groups : \E index \in 0..(Len(Entries(subscribe_data, g)) + 1) :
        /\ phase = "running"
        /\ LET upcoming == get_upcoming_subscribe(subscribe_data, g, now)
               answer == RmAnswer(upcoming, index)
           IN IF answer # "ok"
              THEN /\ last' = Answer("rm", g, index, 0, <<>>, "none", <<answer>>)
                   /\ UNCHANGED <<subscribe_data, jobs, disk, suspended, removed>>
              ELSE LET job_id == GetId(upcoming[index])
                       data1 == StoreRemove(subscribe_data, g, upcoming, index)
                       armed == \E j \in jobs : j.id = job_id
                   IN /\ subscribe_data' = data1
                      /\ jobs' = JobsAfterRemove(jobs, job_id)
                      /\ IF armed
                         THEN /\ disk' = _save_data(data1)
                              /\ suspended' = suspended
                              /\ removed' = removed \cup {job_id}
                              /\ last' = Answer("rm", g, index, job_id, <<>>, "none",
                                                RmMessages(TRUE))
                         ELSE /\ disk' = disk
                              /\ suspended' = suspended \cup {[group |-> g, id |-> job_id]}
                              /\ removed' = removed
                              /\ last' = Answer("rm", g, index, job_id, <<>>,
                                                "JobLookupError",
                                                SubSeq(RmMessages(FALSE), 1, 1))
        /\ UNCHANGED <<phase, now, since, uuid, fired, scheduler_running>>

\* subscribe_list answers with the upcoming entries of the group and changes nothing
subscribe_list ==
    \E g \in Groups :
        /\ phase = "running"
        /\ last' = [NoOp EXCEPT !.op = "ls", !.resp =
                        IF get_upcoming_subscribe(subscribe_data, g, now) = <<>>
                        THEN <<"NothingUpcoming">> ELSE <<"Listing">>]
        /\ UNCHANGED <<phase, now, since, disk, subscribe_data, jobs, uuid, fired,
                       scheduler_running, suspended, removed>>

\* a parked subscribe_rm goes on: _save_data(), then the last yield
subscribe_rm_resume ==
    \E h \in suspended :
        /\ phase \in {"running", "down"}
        /\ disk' = RmResumeLedger(subscribe_data, disk)
        /\ suspended' = suspended \ {h}
        /\ removed' = removed \cup {h.id}
        /\ last' = Answer("rm_done", h.group, 0, h.id, <<>>, "JobLookupError",
                          RmMessages(FALSE))
        /\ UNCHANGED <<phase, now, since, subscribe_data, jobs, uuid, fired,
                       scheduler_running>>

----------------------------------------------------------------------------
(* terminate: scheduler.shutdown(), then _save_data() *)

terminate_no_shutdown ==
    /\ phase = "running"
    /\ phase' = "down"
    /\ since' = now
    /\ disk' = _save_data(subscribe_data)
    /\ last' = [NoOp EXCEPT !.op = "terminate"]
    /\ UNCHANGED <<now, subscribe_data, jobs, uuid, fired, scheduler_running,
                   suspended, removed>>

terminate ==
    /\ phase = "running"
    /\ phase' = "down"
    /\ since' = now
    /\ scheduler_running' = FALSE
    /\ jobs' = {}
    /\ disk' = _save_data(subscribe_data)
    /\ last' = [NoOp EXCEPT !.op = "terminate"]
    /\ UNCHANGED <<now, subscribe_data, uuid, fired, suspended, removed>>

----------------------------------------------------------------------------

Next ==
    \/ Tick
    \/ StartCorrupt
    \/ Start
    \/ FireDate
    \/ FireCron
    \/ weather_subscribe
    \/ subscribe_list
    \/ subscribe_rm
    \/ subscribe_rm_resume
    \/ terminate

Spec == Init /\ [][Next]_vars

TypeOK ==
    /\ phase \in {"new", "running", "failed", "down"}
    /\ now \in 0..MaxTime
    /\ uuid \in FirstUuid..(MaxUuid + 1)
    /\ \A g \in DOMAIN subscribe_data : Len(subscribe_data[g]) <= MaxLen

----------------------------------------------------------------------------
(* Vocabulary of the properties *)

\* the whitespace-separated tokens of an expression
Tokens(cron_expr) == SelectSeq(split(cron_expr, <<>>, <<>>), LAMBDA f : f # <<>>)

InStore(id) ==
    \E g \in DOMAIN subscribe_data : \E i \in 1..Len(subscribe_data[g]) :
        GetId(subscribe_data[g][i]) = id

Ledger == json_load(disk.members)

InLedger(id) ==
    \E g \in DOMAIN Ledger : \E i \in 1..Len(Ledger[g]) : GetId(Ledger[g][i]) = id

Armed(id) == \E j \in jobs : j.id = id

----------------------------------------------------------------------------
(* C1: when a subscribe request whose recurrence expression does not have   *)
(* exactly five fields has ended, its subscription is in neither the       *)
(* in-memory store nor the ledger file and no trigger is armed for it.     *)
C1_MalformedSubscribeRejected ==
    (last.op = "sub" /\ Len(Tokens(last.cron)) # 5)
        => ~InStore(last.id) /\ ~InLedger(last.id) /\ ~Armed(last.id)

(* C2: for every expression whose number of whitespace-separated tokens is  *)
(* not five, _parse_cron_expr fails instead of returning a field record.   *)
C2_NormalizerRejectsWrongCount ==
    (last.op = "sub" /\ Len(Tokens(last.cron)) # 5)
        => _parse_cron_expr(last.cron).error # "none"

----------------------------------------------------------------------------
(* list_upcoming as the specification words it: the group's entries that   *)
(* are recurring or whose fire_at is not before t, in stored order          *)

IsOneShot(s) == "datetime" \in DOMAIN s

ListUpcoming(data, g, t) ==
    SelectSeq(Entries(data, g), LAMBDA s : ~IsOneShot(s) \/ ~(s.datetime < t))

\* the place in the stored list of the k-th entry of the upcoming list
StoredPosition(list, k, t) ==
    CHOOSE p \in 1..Len(list) :
        /\ ~IsOneShot(list[p]) \/ ~(list[p].datetime < t)
        /\ Cardinality({q \in 1..p : ~IsOneShot(list[q]) \/ ~(list[q].datetime < t)}) = k

Range(list) == {list[i] : i \in 1..Len(list)}

StripId(s) == [k \in DOMAIN s \ {"id"} |-> s[k]]

OneShotsOf(data) ==
    {s \in UNION {Range(data[g]) : g \in DOMAIN data} : IsOneShot(s)}

----------------------------------------------------------------------------
(* C3 as stated: a one-shot entry due at T has fired once, or is armed to   *)
(* fire, in a process that ran recovery at T+30, and neither in a process  *)
(* that ran recovery at T+90.                                              *)
C3_GraceAtStartup_Original ==
    phase = "running" =>
        \A s \in OneShotsOf(subscribe_data) :
            /\ since = s.datetime + 30 => (Armed(GetId(s)) \/ fired[GetId(s)] = 1)
            /\ since = s.datetime + 90 => ~Armed(GetId(s))

(* C3 amended: a one-shot entry due at T has no trigger and does not fire   *)
(* in a process that ran recovery after T, at T+30 as well as at T+90.     *)
C3_NoFireWhenStartedLate ==
    [][ phase = "running" =>
          \A s \in OneShotsOf(subscribe_data) :
              s.datetime < since =>
                  ~Armed(GetId(s)) /\ fired'[GetId(s)] = fired[GetId(s)] ]_vars

C3_Witness ==
    /\ phase = "running"
    /\ \E s \in OneShotsOf(subscribe_data) :
          since = s.datetime + 30 /\ now = since + 30 /\ fired[GetId(s)] = 0

(* C4: whenever the plugin is running and no handler is in progress, the    *)
(* ledger file holds exactly the in-memory store.                          *)
C4_LedgerEqualsStore ==
    phase = "running" => Ledger = subscribe_data

(* C5: remove(group, k) with k within the upcoming list takes out of the    *)
(* stored list exactly the entry shown at position k, leaves every other   *)
(* entry of every group in place and order, and the upcoming list is the   *)
(* old one without its k-th entry.                                         *)
C5_RemoveTakesShownEntry ==
    [][ LET g == last'.group
            k == last'.index
            up == ListUpcoming(subscribe_data, g, now)
        IN (last'.op = "rm" /\ 1 <= k /\ k <= Len(up)) =>
              /\ subscribe_data' =
                    [subscribe_data EXCEPT
                        ![g] = RemoveAt(@, StoredPosition(subscribe_data[g], k, now))]
              /\ ListUpcoming(subscribe_data', g, now) = RemoveAt(up, k)
              /\ last'.id = GetId(up[k]) ]_vars

C5_Witness ==
    /\ last.op = "rm"
    /\ last.resp # <<>> /\ last.resp[Len(last.resp)] = "Removed"
    /\ last.group \in DOMAIN subscribe_data
    /\ \E s \in Range(subscribe_data[last.group]) : IsOneShot(s) /\ s.datetime < now
    /\ ListUpcoming(subscribe_data, last.group, now) # <<>>
    /\ \E h \in DOMAIN subscribe_data : h # last.group /\ subscribe_data[h] # <<>>

(* C6 as stated: remove(group, k) with k < 1 or k beyond the upcoming list  *)
(* answers IndexOutOfRange and changes neither store, ledger nor triggers. *)
C6_OutOfRange_Original ==
    [][ LET up == ListUpcoming(subscribe_data, last'.group, now) IN
        (last'.op = "rm" /\ (last'.index < 1 \/ last'.index > Len(up))) =>
              /\ last'.resp = <<"IndexOutOfRange">>
              /\ UNCHANGED <<subscribe_data, disk, jobs>> ]_vars

(* C6 amended: remove(group, k) on a group that has upcoming entries, with  *)
(* k < 1 or k beyond the upcoming list, answers IndexOutOfRange and        *)
(* changes neither store, ledger nor triggers.                             *)
C6_OutOfRangeOnNonEmpty ==
    [][ LET up == ListUpcoming(subscribe_data, last'.group, now) IN
        (last'.op = "rm" /\ up # <<>> /\ (last'.index < 1 \/ last'.index > Len(up))) =>
              /\ last'.resp = <<"IndexOutOfRange">>
              /\ UNCHANGED <<subscribe_data, disk, jobs>> ]_vars

C6_Witness ==
    /\ last.op = "rm"
    /\ last.resp = <<"IndexOutOfRange">>
    /\ last.index = Len(ListUpcoming(subscribe_data, last.group, now)) + 1
    /\ Len(Entries(subscribe_data, last.group)) >
           Len(ListUpcoming(subscribe_data, last.group, now))

(* C7: remove(group, k) on a group without upcoming entries answers         *)
(* EmptyStore for every k and changes neither store, ledger nor triggers.  *)
C7_EmptyStoreOnNoUpcoming ==
    [][ (last'.op = "rm" /\ ListUpcoming(subscribe_data, last'.group, now) = <<>>) =>
              /\ last'.resp = <<"EmptyStore">>
              /\ UNCHANGED <<subscribe_data, disk, jobs>> ]_vars

C7_Witness ==
    /\ last.op = "rm"
    /\ last.resp = <<"EmptyStore">>
    /\ last.index = 1
    /\ Entries(subscribe_data, last.group) # <<>>
    /\ \A s \in Range(Entries(subscribe_data, last.group)) :
          IsOneShot(s) /\ s.datetime < now

(* C8: a one-shot entry whose fire_at was before the clock when the ledger  *)
(* was loaded is not in the upcoming list, has no trigger, does not fire,  *)
(* and stays in the in-memory store and in the ledger file.                *)
C8_ExpiredAtLoadIsInert ==
    [][ phase = "running" =>
          \A g \in DOMAIN subscribe_data : \A s \in Range(subscribe_data[g]) :
              (IsOneShot(s) /\ s.datetime < since) =>
                  /\ s \notin Range(get_upcoming_subscribe(subscribe_data, g, now))
                  /\ ~Armed(GetId(s))
                  /\ fired'[GetId(s)] = fired[GetId(s)]
                  /\ g \in DOMAIN subscribe_data' /\ s \in Range(subscribe_data'[g])
                  /\ g \in DOMAIN Ledger
                  /\ StripId(s) \in {StripId(e) : e \in Range(Ledger[g])}
                  /\ g \in DOMAIN Ledger'
                  /\ StripId(s) \in {StripId(e) : e \in Range(Ledger'[g])} ]_vars

C8_Witness ==
    /\ phase = "running"
    /\ last.op = "rm" /\ last.resp = <<"Removed">>
    /\ \E s \in Range(Entries(subscribe_data, last.group)) :
          /\ IsOneShot(s) /\ s.datetime < since
          /\ s \in Range(Entries(Ledger, last.group))
          /\ fired[GetId(s)] = 0

(* C9: after a successful subscribe, the upcoming list of the group holds   *)
(* the new subscription exactly once, at its last position.                *)
C9_AddedIsLastUpcoming ==
    (last.op = "sub" /\ last.resp = <<"SubscribeOk">>) =>
        LET up == get_upcoming_subscribe(subscribe_data, last.group, now) IN
        /\ up # <<>>
        /\ GetId(up[Len(up)]) = last.id
        /\ up[Len(up)].cron = last.cron
        /\ Cardinality({k \in 1..Len(up) : GetId(up[k]) = last.id}) = 1

C9_Witness ==
    /\ last.op = "sub" /\ last.resp = <<"SubscribeOk">>
    /\ LET all == Entries(subscribe_data, last.group) IN
       \E i \in 1..Len(all) :
          /\ GetId(all[i]) # last.id
          /\ StripId(all[i]) = StripId(all[Len(all)])

(* C10: a start of the plugin after terminate loads a store equal to the    *)
(* one the terminated plugin held: same groups, same entries, same order.  *)
C10_RoundTrip ==
    [][ (phase = "down" /\ last'.op = "init") =>
            subscribe_data' = subscribe_data /\ Ledger' = subscribe_data ]_vars

C10_Witness ==
    /\ phase = "running"
    /\ last.op = "init"
    /\ uuid > FirstUuid
    /\ \E g \in DOMAIN subscribe_data : subscribe_data[g] = <<>>
    /\ \E g \in DOMAIN subscribe_data : Len(subscribe_data[g]) >= 2

(* C11: a remove whose job is no longer in the scheduler still takes the   *)
(* entry out of the store, and once the handler has run to its end the     *)
(* ledger is written without the entry.                                    *)
C11_RemovedThoughDisarmFailed ==
    /\ (last.op = "rm" /\ last.error = "JobLookupError") => ~InStore(last.id)
    /\ last.op = "rm_done" => (~InStore(last.id) /\ ~InLedger(last.id))

C11_Witness ==
    /\ last.op = "rm_done"
    /\ phase = "running"
    /\ last.id < FirstUuid
    /\ ~InLedger(last.id)
    /\ \E g \in DOMAIN Ledger : Ledger[g] # <<>>

(* C12, as stated: a remove that took an entry out answers with the removed *)
(* subscription's text and nothing else, whether or not its job was still  *)
(* in the scheduler.                                                       *)
C12_SameResponse_Original ==
    (last.op \in {"rm", "rm_done"} /\ last.id # 0) => last.resp = <<"Removed">>

(* C12, amended: a remove whose job is missing from the scheduler first     *)
(* answers that the job could not be deleted and then with the removed     *)
(* subscription's text; a remove whose job was there answers with the text *)
(* alone.                                                                  *)
C12_DisarmFailureSurfaced ==
    /\ (last.op = "rm" /\ last.id # 0 /\ last.error = "none") =>
            last.resp = <<"Removed">>
    /\ (last.op = "rm" /\ last.id # 0 /\ last.error = "JobLookupError") =>
            last.resp = <<"RemoveJobFailed">>
    /\ last.op = "rm_done" =>
            (last.error = "JobLookupError"
             /\ last.resp = <<"RemoveJobFailed", "Removed">>)

C12_Witness ==
    /\ last.op = "rm_done"
    /\ last.resp = <<"RemoveJobFailed", "Removed">>
    /\ ~InStore(last.id)

(* C13: a firing whose delivery fails (no data, or something raised) leaves *)
(* the scheduler running and takes no trigger away but the one-shot        *)
(* trigger of that very firing, which is spent as after a delivered        *)
(* firing; store and ledger are untouched. Whatever is armed stays due.    *)
C13_FailureConfined ==
    [][ (last'.op = "fire" /\ last'.error # "none") =>
          /\ scheduler_running /\ scheduler_running'
          /\ phase' = "running"
          /\ jobs' \subseteq jobs
          /\ Cardinality(jobs \ jobs') <= 1
          /\ \A j \in jobs \ jobs' : j.trigger = "date" /\ j.run_date <= now
          /\ UNCHANGED <<subscribe_data, disk>> ]_vars

C13_Witness ==
    /\ last.op = "fire"
    /\ last.error = "SendError"
    /\ scheduler_running
    /\ \E j \in jobs : j.trigger = "cron"
    /\ \E j \in jobs : j.trigger = "date" /\ j.run_date > now

(* C14: a start that finds a ledger file that is not JSON ends in an error: *)
(* the plugin is not running, no job is armed, the scheduler is not        *)
(* started and the file is left as it was. A start that finds no file      *)
(* writes an empty ledger and runs with an empty store.                    *)
C14_CorruptLedgerHaltsStartup ==
    [][ /\ (last'.op = "init" /\ disk.state = "corrupt") =>
              /\ phase' = "failed"
              /\ last'.error = "JSONDecodeError"
              /\ ~scheduler_running'
              /\ jobs' = {}
              /\ disk' = disk
        /\ (last'.op = "init" /\ disk.state = "absent") =>
              /\ phase' = "running"
              /\ disk' = Json(<<>>)
              /\ subscribe_data' = EmptyStore
              /\ jobs' = {}
        /\ disk'.state = "corrupt" => (phase' # "running" /\ disk' = disk) ]_vars

C14_Witness ==
    /\ phase = "failed"
    /\ last.op = "init"
    /\ last.error = "JSONDecodeError"
    /\ disk = Corrupt
    /\ now > 0

C16_NoFiringOnceTerminated ==
    [][ /\ phase' = "down" => ~scheduler_running'
        /\ last'.op \in {"fire", "missed"} => (phase = "running" /\ phase' = "running")
        /\ last'.op = "terminate" => (fired' = fired /\ Ledger' = subscribe_data) ]_vars

C16_Witness ==
    /\ phase = "down"
    /\ last.op = "tick"
    /\ \E s \in OneShotsOf(subscribe_data) :
          /\ since < s.datetime
          /\ s.datetime <= now
          /\ fired[GetId(s)] = 0

\* the ids of the entries of a store
StoreIds(data) == {GetId(e) : e \in UNION {Range(data[g]) : g \in DOMAIN data}}

(* C17: every subscribe and every remove that does not raise changes the    *)
(* store and writes the ledger in one step, so that no other handler can   *)
(* run between the two: each step of such a handler that changes the store *)
(* leaves the ledger equal to the store.                                   *)
C17_MutationAndPersistInOneStep ==
    [][ (/\ last'.op \in {"sub", "rm", "rm_done"}
         /\ last'.error \notin {"IndexError", "ValueError"}
         /\ subscribe_data' # subscribe_data) =>
            Ledger' = subscribe_data' ]_vars

(* C18: a remove that deletes computes the upcoming list and deletes in one *)
(* step, whatever other handlers are parked meanwhile: the entry deleted   *)
(* is the one at the requested position of the upcoming list of the store  *)
(* as that step finds it, no other entry leaves the store, and the         *)
(* handler deletes nothing more when it resumes.                           *)
C18_RemoveResolvesOnCurrentView ==
    [][ /\ (last'.op = "rm" /\ last'.id # 0) =>
              LET up == ListUpcoming(subscribe_data, last'.group, now) IN
              /\ last'.index \in 1..Len(up)
              /\ GetId(up[last'.index]) = last'.id
              /\ StoreIds(subscribe_data) \ StoreIds(subscribe_data') = {last'.id}
              /\ StoreIds(subscribe_data') \subseteq StoreIds(subscribe_data)
        /\ last'.op = "rm_done" => subscribe_data' = subscribe_data ]_vars

C18_Witness ==
    /\ last.op = "rm"
    /\ last.id # 0
    /\ last.index >= 2
    /\ \E h \in suspended : h.id # last.id /\ h.group = last.group

(* C19: a one-shot entry is run at most once, whatever firings, subscribes, *)
(* removes, terminations and later starts there are; once it has run, no   *)
(* job is armed for it again.                                              *)
C19_OneShotFiresAtMostOnce ==
    /\ \A i \in Ids : fired[i] <= 1
    /\ \A j \in jobs : j.trigger = "date" => fired[j.id] = 0

C19_Witness ==
    /\ phase = "running"
    /\ last.op = "init"
    /\ \E e \in OneShotsOf(subscribe_data) :
          /\ fired[GetId(e)] = 1
          /\ e.datetime < since
          /\ now - e.datetime <= MisfireGraceTime

(* C20: an entry whose remove has run to its end has no job in the         *)
(* scheduler, is in neither store nor ledger, and so is armed by no later  *)
(* start either; with no job there is nothing of it to fire.               *)
C20_RemovedStaysDisarmed ==
    \A i \in removed : ~Armed(i) /\ ~InStore(i) /\ ~InLedger(i)

C20_Witness ==
    /\ phase = "running"
    /\ last.op = "init"
    /\ since > 0
    /\ jobs # {}
    /\ \E i \in removed : i < FirstUuid /\ fired[i] = 0

\* the entries of a store, of every group
AllEntries(data) == UNION {Range(data[g]) : g \in DOMAIN data}

(* C21: while the plugin runs and no handler is parked, every recurring     *)
(* entry of the store, and every one-shot entry of the store whose time is *)
(* still ahead, has exactly one job in the scheduler that carries its id.  *)
C21_StoredMeansArmed ==
    (phase = "running" /\ suspended = {}) =>
        \A e \in AllEntries(subscribe_data) :
            ("cron" \in DOMAIN e \/ (IsOneShot(e) /\ e.datetime > now)) =>
                Cardinality({j \in jobs : j.id = GetId(e)}) = 1

\* a list of entries with the ids left out
StripIds(list) == [i \in 1..Len(list) |-> StripId(list[i])]

(* C22: no step but a remove deletes an entry. A firing (delivered, failed  *)
(* or missed), a start, a listing, a subscribe and terminate keep every    *)
(* entry of every group of the store in its place, and every entry of      *)
(* every group of the ledger in its place, but for what a remove parked    *)
(* before its save has already taken out of that group of the store; and   *)
(* a start loads every entry of the ledger, expired and fired one-shots    *)
(* included.                                                               *)
C22_OnlyRemoveDeletes ==
    [][ \/ last'.op \in {"rm", "rm_done"}
        \/ (subscribe_data' = subscribe_data /\ disk' = disk)
        \/ /\ \A g \in DOMAIN subscribe_data :
                  /\ g \in DOMAIN subscribe_data'
                  /\ Len(subscribe_data'[g]) >= Len(subscribe_data[g])
                  /\ SubSeq(StripIds(subscribe_data'[g]), 1, Len(subscribe_data[g]))
                        = StripIds(subscribe_data[g])
           /\ disk' # disk =>
                  LET old == Ledger
                      new == Ledger'
                  IN \A g \in DOMAIN old :
                        LET parked == Cardinality({h \in suspended : h.group = g})
                            kept == Len(Entries(new, g))
                        IN /\ kept >= Len(old[g]) - parked
                           /\ parked = 0 =>
                                 /\ SubSeq(StripIds(new[g]), 1, Len(old[g])) = StripIds(old[g])
                                 /\ \A i \in 1..Len(old[g]) :
                                       GetId(old[g][i]) \in {0, GetId(new[g][i])}
           /\ (last'.op = "init" /\ phase' = "running") =>
                  \A g \in DOMAIN Ledger' :
                      /\ g \in DOMAIN subscribe_data'
                      /\ StripIds(subscribe_data'[g]) = StripIds(Ledger'[g]) ]_vars

C22_Witness ==
    /\ phase = "running"
    /\ last.op = "init"
    /\ \E e \in OneShotsOf(Ledger) : \E f \in OneShotsOf(Ledger) :
          /\ InStore(GetId(e)) /\ InStore(GetId(f))
          /\ fired[GetId(e)] = 1
          /\ fired[GetId(f)] = 0 /\ f.datetime < since

====
